---- MODULE Spec2Model ----
(***************************************************************************)
(* A model of app/frontend/js/main.js: the browser client that starts an   *)
(* analysis run, reads the server-sent event stream of the run, maps the   *)
(* events onto five stage cards and accumulates the report.                *)
(*                                                                         *)
(* Text is modelled by TLA+ strings.  A stream chunk is a sequence of      *)
(* bytes, each byte a one-character string, except the two bytes "C3" and  *)
(* "A9" of one two-byte UTF-8 character, which TextDecoder turns into the  *)
(* single character "E".                                                   *)
(***************************************************************************)
EXTENDS Integers, Sequences, FiniteSets

(***************************************************************************)
(* String helpers: what the JavaScript string methods used by main.js do.  *)
(***************************************************************************)

\* s.substring(from) with a 0-based from.
Substring(s, from) == SubSeq(s, from + 1, Len(s))

\* s.substring(0, to) with a 0-based, exclusive to.
Prefix(s, to) == SubSeq(s, 1, to)

\* s.startsWith(p)
StartsWith(s, p) == Len(s) >= Len(p) /\ SubSeq(s, 1, Len(p)) = p

\* s.endsWith(p)
EndsWith(s, p) == Len(s) >= Len(p) /\ SubSeq(s, Len(s) - Len(p) + 1, Len(s)) = p

\* s.includes(p)
Includes(s, p) == \E i \in 1..(Len(s) + 1) : i + Len(p) - 1 <= Len(s) /\ SubSeq(s, i, i + Len(p) - 1) = p

\* The 0-based index of the first c in s at or after the 1-based place i, -1 if none.
RECURSIVE IndexFrom(_, _, _)
IndexFrom(s, c, i) ==
    IF i > Len(s) THEN -1 ELSE IF SubSeq(s, i, i) = c THEN i - 1 ELSE IndexFrom(s, c, i + 1)

\* s.indexOf(c) for a one-character c: 0-based, -1 when c does not occur.
IndexOf(s, c) == IndexFrom(s, c, 1)

\* White space removed by String.prototype.trim.
IsSpace(c) == c \in {" ", "\t", "\r", "\n"}

RECURSIVE TrimStart(_)
TrimStart(s) == IF Len(s) > 0 /\ IsSpace(SubSeq(s, 1, 1)) THEN TrimStart(SubSeq(s, 2, Len(s))) ELSE s

RECURSIVE TrimEnd(_)
TrimEnd(s) == IF Len(s) > 0 /\ IsSpace(SubSeq(s, Len(s), Len(s))) THEN TrimEnd(SubSeq(s, 1, Len(s) - 1)) ELSE s

\* s.trim()
Trim(s) == TrimEnd(TrimStart(s))

\* The lower-case letter of each upper-case letter.
LowerOf ==
    [A |-> "a", B |-> "b", C |-> "c", D |-> "d", E |-> "e", F |-> "f", G |-> "g", H |-> "h", I |-> "i",
     J |-> "j", K |-> "k", L |-> "l", M |-> "m", N |-> "n", O |-> "o", P |-> "p", Q |-> "q", R |-> "r",
     S |-> "s", T |-> "t", U |-> "u", V |-> "v", W |-> "w", X |-> "x", Y |-> "y", Z |-> "z"]

LowerChar(c) == IF c \in DOMAIN LowerOf THEN LowerOf[c] ELSE c

\* s.toLowerCase()
RECURSIVE ToLowerCase(_)
ToLowerCase(s) == IF Len(s) = 0 THEN "" ELSE LowerChar(SubSeq(s, 1, 1)) \o ToLowerCase(SubSeq(s, 2, Len(s)))

\* The bytes of an ASCII string, one byte per character.
Bytes(s) == [i \in 1..Len(s) |-> SubSeq(s, i, i)]

(***************************************************************************)
(* The stages and their statuses.                                          *)
(***************************************************************************)

\* The five stage cards (the list of resetAllAgents and of the end-of-stream loop).
Stages == {"orchestrator", "parser", "modeler", "builder", "verifier"}

AGENT_SEQUENCE == <<"orchestrator", "parser", "modeler", "builder", "verifier">>

\* What AGENT_MAPPING[name] gives for a name that is no key of the table
\* but a property every object inherits: a function, which is truthy and
\* names no stage.
Inherited == "<inherited>"

\* The static actor table; "" stands for a name the lookup answers with
\* undefined.
AGENT_MAPPING(author) ==
    CASE author = "threat_model_orchestrator" -> "orchestrator"
      [] author = "architecture_parser_agent" -> "parser"
      [] author = "threat_modeler_agent" -> "modeler"
      [] author = "report_builder_agent" -> "builder"
      [] author = "report_verifier_agent" -> "verifier"
      [] author \in {"constructor", "toString"} -> Inherited
      [] OTHER -> ""

\* document.getElementById(`agent-${agentId}`): the page holds one card per stage.
HasCard(agentId) == agentId \in Stages

\* AGENT_SEQUENCE.indexOf(agentId), 0-based, -1 when absent.
SequenceIndex(agentId) ==
    IF \E i \in 1..Len(AGENT_SEQUENCE) : AGENT_SEQUENCE[i] = agentId
    THEN (CHOOSE i \in 1..Len(AGENT_SEQUENCE) : AGENT_SEQUENCE[i] = agentId) - 1
    ELSE -1

\* FuzzyAgent with the stages tried in the order of AGENT_SEQUENCE.
FuzzyAgentInSequenceOrder(author) ==
    LET authorLower == ToLowerCase(author)
    IN IF Includes(authorLower, "orchestrator") \/ Includes(authorLower, "orchestrat") THEN "orchestrator"
       ELSE IF Includes(authorLower, "parser") \/ Includes(authorLower, "architecture") THEN "parser"
       ELSE IF Includes(authorLower, "modeler")
               \/ (Includes(authorLower, "threat") /\ ~Includes(authorLower, "orchestr")) THEN "modeler"
       ELSE IF Includes(authorLower, "builder") \/ Includes(authorLower, "content")
               \/ (Includes(authorLower, "report") /\ ~Includes(authorLower, "verif")) THEN "builder"
       ELSE IF Includes(authorLower, "verifier") \/ Includes(authorLower, "verification")
               \/ Includes(authorLower, "escalation") THEN "verifier"
       ELSE authorLower

\* The fuzzy matching of an author the table does not hold.
FuzzyAgent(author) ==
    LET authorLower == ToLowerCase(author)
    IN IF Includes(authorLower, "parser") \/ Includes(authorLower, "architecture") THEN "parser"
       ELSE IF Includes(authorLower, "modeler")
               \/ (Includes(authorLower, "threat") /\ ~Includes(authorLower, "orchestr")) THEN "modeler"
       ELSE IF Includes(authorLower, "builder") \/ Includes(authorLower, "content")
               \/ (Includes(authorLower, "report") /\ ~Includes(authorLower, "verif")) THEN "builder"
       ELSE IF Includes(authorLower, "verifier") \/ Includes(authorLower, "verification")
               \/ Includes(authorLower, "escalation") THEN "verifier"
       ELSE IF Includes(authorLower, "orchestrator") \/ Includes(authorLower, "orchestrat") THEN "orchestrator"
       ELSE authorLower

\* The stage id an author resolves to.
ResolveAgent(author) == IF AGENT_MAPPING(author) # "" THEN AGENT_MAPPING(author) ELSE FuzzyAgent(author)

\* IsCompletion, were it to compare without regard to case.
IsCompletionAnyCase(finishReason) == ToLowerCase(finishReason) \in {"stop", "done", "max_tokens"}

\* finishReason is one of the three completion reasons.
IsCompletion(finishReason) == finishReason \in {"STOP", "DONE", "MAX_TOKENS"}

(***************************************************************************)
(* Decoded events.  An event is a record; an absent field is the empty     *)
(* string, the empty list, or the shape "none".                            *)
(***************************************************************************)

\* pdfFilePath = null
Null == "<null>"

NoContent == [shape |-> "none", text |-> "", parts |-> <<>>]

StringContent(t) == [shape |-> "string", text |-> t, parts |-> <<>>]

PartsContent(ps) == [shape |-> "parts", text |-> "", parts |-> ps]

TextContent(t) == [shape |-> "text", text |-> t, parts |-> <<>>]

\* A toolCalls entry {name, response}: the response is absent ("none"), an
\* object ("object"), a string holding JSON ("json") or a string that is
\* not JSON ("text"); file_path is the field of the object or of the JSON.
ToolCall(n, k, fp) == [name |-> n, kind |-> k, file_path |-> fp]

\* An artifactDelta entry filename -> artifact; the artifact is null or an
\* object whose filePath may be absent ("").
Artifact(fn, isNull, path) == [filename |-> fn, isNull |-> isNull, filePath |-> path]

Event(author, finishReason, content, toolCalls, artifactDelta) ==
    [author |-> author, finishReason |-> finishReason, content |-> content,
     toolCalls |-> toolCalls, artifactDelta |-> artifactDelta]

AuthorEvent(author, finishReason) == Event(author, finishReason, NoContent, <<>>, <<>>)

\* The events of the model, by the one-character key that stands for the
\* JSON text of the event on the wire.
EventOf(key) ==
    CASE key = "o" -> AuthorEvent("threat_model_orchestrator", "")
      [] key = "O" -> AuthorEvent("threat_model_orchestrator", "DONE")
      [] key = "p" -> AuthorEvent("architecture_parser_agent", "")
      [] key = "P" -> AuthorEvent("architecture_parser_agent", "STOP")
      [] key = "m" -> Event("threat_modeler_agent", "", StringContent("x"), <<>>, <<>>)
      [] key = "M" -> AuthorEvent("threat_modeler_agent", "STOP")
      [] key = "b" -> Event("report_builder_agent", "", PartsContent(<<"y", "", "z">>), <<>>, <<>>)
      [] key = "B" -> AuthorEvent("report_builder_agent", "MAX_TOKENS")
      [] key = "v" -> AuthorEvent("report_verifier_agent", "")
      [] key = "V" -> AuthorEvent("report_verifier_agent", "STOP")
      [] key = "l" -> AuthorEvent("verification_loop", "")
      [] key = "L" -> AuthorEvent("verification_loop", "STOP")
      [] key = "w" -> Event("", "", NoContent, <<ToolCall("write_file", "none", "")>>, <<>>)
      [] key = "u" -> AuthorEvent("Summary_Agent", "STOP")
      [] key = "f" -> AuthorEvent("architecture_parser_agent", "OTHER")
      [] key = "d" -> Event("", "", NoContent, <<>>, <<Artifact("report.pdf", FALSE, "/tmp/report.pdf")>>)
      [] key = "n" -> Event("", "", NoContent, <<>>, <<Artifact("notes.md", FALSE, "/tmp/notes.md")>>)
      [] key = "r" -> Event("report_builder_agent", "", StringContent("x"), <<>>,
                            <<Artifact("report.pdf", FALSE, "/tmp/report.pdf")>>)
      [] key = "E" -> Event("Escalation-Checker", "", TextContent("t"), <<>>, <<>>)

AllKeys == {"o", "O", "p", "P", "m", "M", "b", "B", "v", "V", "l", "L", "w", "u", "f", "d", "n", "r", "E"}

(***************************************************************************)
(* processStreamEvent.  The shared state it works on is the record         *)
(* [agentStatuses, fullReport, pdfFilePath]; thrown tells that a step      *)
(* raised an exception, which ends the processing of the event.            *)
(***************************************************************************)

\* agentStatuses[id] is neither 'active' nor 'completed'.
NotStartedIn(st, id) == st[id] # "active" /\ st[id] # "completed"

\* PromoteBuilder without its check of the status of builder.
PromoteBuilderAlways(st) == [st EXCEPT !["builder"] = "active"]

\* The promotion of builder by the two side-channel checks.
PromoteBuilder(st) == IF NotStartedIn(st, "builder") THEN [st EXCEPT !["builder"] = "active"] ELSE st

\* PromoteNext without its check of the successor's status.
PromoteNextAlways(st, agentId) ==
    IF SequenceIndex(agentId) >= 0 /\ SequenceIndex(agentId) < Len(AGENT_SEQUENCE) - 1
    THEN [st EXCEPT ![AGENT_SEQUENCE[SequenceIndex(agentId) + 2]] = "active"]
    ELSE st

\* The promotion of the successor of a completed stage.
PromoteNext(st, agentId) ==
    LET currentIndex == SequenceIndex(agentId)
    IN IF currentIndex >= 0 /\ currentIndex < Len(AGENT_SEQUENCE) - 1
       THEN LET nextAgentId == AGENT_SEQUENCE[currentIndex + 2]
            IN IF NotStartedIn(st, nextAgentId) THEN [st EXCEPT ![nextAgentId] = "active"] ELSE st
       ELSE st

\* AuthorStep without the check that guards the promotion to active.
AuthorStepDemoting(st, event) ==
    IF event.author = "" \/ ~HasCard(ResolveAgent(event.author)) THEN st
    ELSE IF IsCompletion(event.finishReason)
         THEN PromoteNext([st EXCEPT ![ResolveAgent(event.author)] = "completed"], ResolveAgent(event.author))
         ELSE [st EXCEPT ![ResolveAgent(event.author)] = "active"]

\* The status update by the author and the finishReason of the event.
AuthorStep(st, event) ==
    IF event.author = "" THEN st
    ELSE LET agentId == ResolveAgent(event.author)
         IN IF ~HasCard(agentId) THEN st
            ELSE IF IsCompletion(event.finishReason)
                 THEN PromoteNext([st EXCEPT ![agentId] = "completed"], agentId)
                 ELSE IF NotStartedIn(st, agentId) THEN [st EXCEPT ![agentId] = "active"] ELSE st

\* The verification_loop check.
LoopStep(st, event) ==
    IF event.author # "" /\ (Includes(event.author, "verification_loop") \/ Includes(event.author, "verification-loop"))
    THEN PromoteBuilder(st)
    ELSE st

\* ToolStep, were it to look at the first tool call only.
ToolStepFirstCallOnly(st, event) ==
    IF Len(event.toolCalls) > 0
       /\ event.toolCalls[1].name # ""
       /\ (Includes(event.toolCalls[1].name, "write_file") \/ Includes(event.toolCalls[1].name, "convert_markdown"))
    THEN PromoteBuilder(st)
    ELSE st

\* The first pass over the tool calls.
ToolStep(st, event) ==
    IF \E i \in 1..Len(event.toolCalls) :
          LET name == event.toolCalls[i].name
          IN name # "" /\ (Includes(name, "write_file") \/ Includes(name, "convert_markdown"))
    THEN PromoteBuilder(st)
    ELSE st

\* ArtifactStep without the check of the name of the entry.
RECURSIVE ArtifactStepAnyName(_, _, _)
ArtifactStepAnyName(pdf, entries, i) ==
    IF i > Len(entries) THEN [pdfFilePath |-> pdf, thrown |-> FALSE]
    ELSE IF entries[i].isNull THEN [pdfFilePath |-> pdf, thrown |-> TRUE]
    ELSE ArtifactStepAnyName(IF entries[i].filePath # "" THEN entries[i].filePath ELSE entries[i].filename,
                             entries, i + 1)

\* The pass over the artifactDelta entries from entry i on: the resulting
\* pointer, and whether an entry raised (a .pdf entry whose artifact is null).
RECURSIVE ArtifactStep(_, _, _)
ArtifactStep(pdf, entries, i) ==
    IF i > Len(entries) THEN [pdfFilePath |-> pdf, thrown |-> FALSE]
    ELSE LET e == entries[i]
         IN IF ~EndsWith(e.filename, ".pdf") THEN ArtifactStep(pdf, entries, i + 1)
            ELSE IF e.isNull THEN [pdfFilePath |-> pdf, thrown |-> TRUE]
            ELSE ArtifactStep(IF e.filePath # "" THEN e.filePath ELSE e.filename, entries, i + 1)

RECURSIVE JoinParts(_, _)
JoinParts(parts, i) == IF i > Len(parts) THEN "" ELSE parts[i] \o JoinParts(parts, i + 1)

\* The text of the content of an event.
ContentText(content) ==
    CASE content.shape = "string" -> content.text
      [] content.shape = "parts" -> JoinParts(content.parts, 1)
      [] content.shape = "text" -> content.text
      [] OTHER -> ""

\* The second pass over the tool calls from call i on: the pointer, and
\* whether JSON.parse of a string response raised.
RECURSIVE PdfToolStep(_, _, _)
PdfToolStep(pdf, calls, i) ==
    IF i > Len(calls) THEN [pdfFilePath |-> pdf, thrown |-> FALSE]
    ELSE LET c == calls[i]
         IN IF c.name # "convert_markdown_to_pdf" \/ c.kind = "none" THEN PdfToolStep(pdf, calls, i + 1)
            ELSE IF c.kind = "text" THEN [pdfFilePath |-> pdf, thrown |-> TRUE]
            ELSE PdfToolStep(IF EndsWith(c.file_path, ".pdf") THEN c.file_path ELSE pdf, calls, i + 1)

\* The statuses after the three status steps of processStreamEvent.
StatusSteps(st, event) == ToolStep(LoopStep(AuthorStep(st, event), event), event)

\* ProcessStreamEvent, were an event that raises to leave no change behind.
ProcessStreamEventRollingBack(g, event) ==
    LET st == StatusSteps(g.agentStatuses, event)
        art == ArtifactStep(g.pdfFilePath, event.artifactDelta, 1)
        tool == PdfToolStep(art.pdfFilePath, event.toolCalls, 1)
    IN IF art.thrown \/ tool.thrown THEN g
       ELSE [agentStatuses |-> st,
             fullReport |-> g.fullReport \o ContentText(event.content),
             pdfFilePath |-> tool.pdfFilePath]

\* processStreamEvent(event) on the shared state g: the artifact pass may
\* raise, which skips the content and the second pass over the tool calls.
ProcessStreamEvent(g, event) ==
    LET st == StatusSteps(g.agentStatuses, event)
        art == ArtifactStep(g.pdfFilePath, event.artifactDelta, 1)
    IN IF art.thrown
       THEN [agentStatuses |-> st, fullReport |-> g.fullReport, pdfFilePath |-> art.pdfFilePath]
       ELSE [agentStatuses |-> st,
             fullReport |-> g.fullReport \o ContentText(event.content),
             pdfFilePath |-> PdfToolStep(art.pdfFilePath, event.toolCalls, 1).pdfFilePath]

(***************************************************************************)
(* updateReportDisplay: the markdown subset, by its seven replacements.    *)
(***************************************************************************)

\* One header replacement, /^# (.*$)/gim and its two siblings: every line
\* that starts with mark becomes <tag>rest of the line</tag>.
RECURSIVE HeaderLines(_, _, _)
HeaderLines(s, mark, tag) ==
    LET idx == IndexOf(s, "\n")
        line == IF idx < 0 THEN s ELSE Prefix(s, idx)
        conv == IF StartsWith(line, mark)
                THEN "<" \o tag \o ">" \o Substring(line, Len(mark)) \o "</" \o tag \o ">"
                ELSE line
    IN IF idx < 0 THEN conv ELSE conv \o "\n" \o HeaderLines(Substring(s, idx + 1), mark, tag)

\* The 0-based offset of the first d in s that no line break precedes, -1 if none.
RECURSIVE CloseOffset(_, _, _)
CloseOffset(s, d, k) ==
    IF k + Len(d) > Len(s) THEN -1
    ELSE IF SubSeq(s, k + 1, k + Len(d)) = d THEN k
    ELSE IF SubSeq(s, k + 1, k + 1) = "\n" THEN -1
    ELSE CloseOffset(s, d, k + 1)

\* One inline replacement, /d(.*?)d/gim: the shortest span between two d
\* on one line becomes <tag>span</tag>, from left to right.
RECURSIVE Inline(_, _, _)
Inline(s, d, tag) ==
    IF Len(s) < Len(d) THEN s
    ELSE LET rest == Substring(s, Len(d))
             k == IF StartsWith(s, d) THEN CloseOffset(rest, d, 0) ELSE -1
         IN IF k >= 0
            THEN "<" \o tag \o ">" \o Prefix(rest, k) \o "</" \o tag \o ">"
                 \o Inline(Substring(rest, k + Len(d)), d, tag)
            ELSE SubSeq(s, 1, 1) \o Inline(Substring(s, 1), d, tag)

\* html.replace(/\n\n/gim, '</p><p>')
RECURSIVE Paragraphs(_)
Paragraphs(s) ==
    IF Len(s) = 0 THEN ""
    ELSE IF StartsWith(s, "\n\n") THEN "</p><p>" \o Paragraphs(Substring(s, 2))
    ELSE SubSeq(s, 1, 1) \o Paragraphs(Substring(s, 1))

\* The backquote of inline code; a TLA+ string cannot hold the character
\* itself, so the model writes it as a tilde.
Backquote == "~"

\* The HTML updateReportDisplay builds from the report buffer.
RenderMarkdown(report) ==
    LET h1 == HeaderLines(report, "# ", "h1")
        h2 == HeaderLines(h1, "## ", "h2")
        h3 == HeaderLines(h2, "### ", "h3")
        strong == Inline(h3, "**", "strong")
        em == Inline(strong, "*", "em")
        code == Inline(em, Backquote, "code")
    IN "<p>" \o Paragraphs(code) \o "</p>"

\* What reportContent shows: the kind of its content and, for an error or
\* a rendered report, the text.
Display(kind, text) == [kind |-> kind, text |-> text]

\* updateReportDisplay()
UpdateReportDisplay(report) ==
    IF Trim(report) = "" THEN Display("processing", "") ELSE Display("report", RenderMarkdown(report))

(***************************************************************************)
(* The decoder of streamQuery.                                             *)
(***************************************************************************)

\* decoder.decode(value, {stream: true}) from byte i on, text being what
\* the bytes before i gave: the text decoded and the lead byte kept for
\* the next chunk.  "?" stands for U+FFFD.
RECURSIVE DecodeFrom(_, _, _, _)
DecodeFrom(pending, bytes, i, text) ==
    IF i > Len(bytes) THEN [text |-> text, pending |-> pending]
    ELSE IF pending = "C3"
         THEN IF bytes[i] = "A9" THEN DecodeFrom("", bytes, i + 1, text \o "E")
              ELSE DecodeFrom("", bytes, i, text \o "?")
         ELSE IF bytes[i] = "C3" THEN DecodeFrom("C3", bytes, i + 1, text)
         ELSE DecodeFrom("", bytes, i + 1, text \o (IF bytes[i] = "A9" THEN "?" ELSE bytes[i]))

TextDecode(pending, bytes) == DecodeFrom(pending, bytes, 1, "")

\* JSON.parse(jsonStr) succeeds: the text of an event with key k is {k}.
IsJSON(jsonStr) ==
    Len(jsonStr) = Len("{k}") /\ SubSeq(jsonStr, 1, 1) = "{" /\ SubSeq(jsonStr, 3, 3) = "}"
    /\ SubSeq(jsonStr, 2, 2) \in AllKeys

\* The key of the event JSON.parse(jsonStr) returns.
JSONKey(jsonStr) == SubSeq(jsonStr, 2, 2)

\* One complete line, trimmed: the keys of the events it passes to
\* processStreamEvent (none or one).
LineKeys(line) ==
    IF StartsWith(line, "data: ")
    THEN LET jsonStr == Substring(line, Len("data: "))
         IN IF jsonStr # "" /\ IsJSON(jsonStr) THEN <<JSONKey(jsonStr)>> ELSE <<>>
    ELSE <<>>

\* DrainLines with a parse failure that ends the loop and drops the buffer.
RECURSIVE DrainLinesStopAtBadLine(_, _)
DrainLinesStopAtBadLine(buffer, keys) ==
    LET newlineIndex == IndexOf(buffer, "\n")
        line == Trim(Prefix(buffer, newlineIndex))
    IN IF newlineIndex < 0 THEN [buffer |-> buffer, keys |-> keys]
       ELSE IF StartsWith(line, "data: ") /\ LineKeys(line) = <<>> THEN [buffer |-> "", keys |-> keys]
       ELSE DrainLinesStopAtBadLine(Substring(buffer, newlineIndex + 1), keys \o LineKeys(line))

\* The inner loop: every complete line is taken out of the buffer; keys
\* lists the events passed to processStreamEvent so far, in order.
RECURSIVE DrainLines(_, _)
DrainLines(buffer, keys) ==
    LET newlineIndex == IndexOf(buffer, "\n")
    IN IF newlineIndex < 0 THEN [buffer |-> buffer, keys |-> keys]
       ELSE DrainLines(Substring(buffer, newlineIndex + 1), keys \o LineKeys(Trim(Prefix(buffer, newlineIndex))))

\* Feed without the partial line kept from the chunks before.
FeedDroppingPartial(buffer, pending, chunk) ==
    LET dec == TextDecode(pending, chunk)
        r == DrainLines(dec.text, <<>>)
    IN [buffer |-> r.buffer, pending |-> dec.pending, keys |-> r.keys]

\* One chunk through the decoder of a run: the new buffer, the new lead
\* byte and the events passed on.
Feed(buffer, pending, chunk) ==
    LET dec == TextDecode(pending, chunk)
        r == DrainLines(buffer \o dec.text, <<>>)
    IN [buffer |-> r.buffer, pending |-> dec.pending, keys |-> r.keys]

\* processStreamEvent on each event of keys, in order.
RECURSIVE ProcessAll(_, _, _)
ProcessAll(g, keys, i) ==
    IF i > Len(keys) THEN g ELSE ProcessAll(ProcessStreamEvent(g, EventOf(keys[i])), keys, i + 1)

(***************************************************************************)
(* The state of the page.                                                  *)
(***************************************************************************)

VARIABLES
    agentStatuses,     \* agentStatuses: stage -> "undefined", "waiting", "active", "completed"
    fullReport,        \* fullReport
    pdfFilePath,       \* pdfFilePath, Null when unset
    currentSessionId,  \* currentSessionId, Null when unset
    abortController,   \* the current AbortController: 0 for null, else the run that made it
    aborted,           \* the controllers whose abort() was called
    reportContent,     \* what reportContent.innerHTML shows
    analyzeBtn,        \* analyzeBtn.disabled
    resetBtn,          \* resetBtn.disabled
    downloadBtn,       \* downloadBtn.disabled
    inputValue,        \* input.value
    uploadedFile,      \* uploadedFile, NoFile when null
    runs,              \* the calls of startAnalysis: where each is suspended, and its locals
    trace,             \* history: the events passed to processStreamEvent since the last start or reset
    wire,              \* the bytes the server has still to send (decoder specification)
    sent,              \* history: the bytes delivered so far (decoder specification)
    log,               \* history: the requests of the runs and their answers, the downloads and
                       \* the alerts of downloadReport, kept by the specifications that observe them
    download,          \* where the call of downloadReport is suspended
    chunks             \* history: the number of chunks delivered so far (decoder specification)

vars == <<agentStatuses, fullReport, pdfFilePath, currentSessionId, abortController, aborted,
          reportContent, analyzeBtn, resetBtn, downloadBtn, inputValue, uploadedFile, runs,
          trace, wire, sent, log, download, chunks>>

\* The number of calls of startAnalysis a behaviour holds.
MaxRuns == 2

\* The longest report buffer a stream may build.
MaxReportLen == 1

\* The longest partial line a stream may leave in the decoder buffer.
MaxBuffer == 8

\* The number of events trace records before it only says "more".
MaxTrace == 2

Runs == 1..MaxRuns

NoFile == [type |-> "", size |-> 0]

\* 10 * 1024 * 1024
MaxFileSize == 10485760

\* The files the user may select.
Files == {[type |-> "image/png", size |-> MaxFileSize],
          [type |-> "image/png", size |-> MaxFileSize + 1],
          [type |-> "text/plain", size |-> 1]}

\* The texts the user may type into the input.
InputTexts == {"", "arch"}

NoRun == [pc |-> "none", architectureText |-> "", file |-> NoFile, signal |-> 0, parts |-> <<>>,
          buffer |-> "", pending |-> ""]

Waiting == [s \in Stages |-> "waiting"]

\* The shared state processStreamEvent works on.
Shared == [agentStatuses |-> agentStatuses, fullReport |-> fullReport, pdfFilePath |-> pdfFilePath]

InitBase ==
    /\ agentStatuses = [s \in Stages |-> "undefined"]
    /\ fullReport = ""
    /\ pdfFilePath = Null
    /\ currentSessionId = Null
    /\ abortController = 0
    /\ aborted = {}
    /\ reportContent = Display("initial", "")
    /\ analyzeBtn = FALSE
    /\ resetBtn \in BOOLEAN
    /\ downloadBtn \in BOOLEAN
    /\ inputValue = ""
    /\ uploadedFile = NoFile
    /\ runs = [r \in Runs |-> NoRun]
    /\ trace = <<>>
    /\ sent = <<>>
    /\ chunks = 0
    /\ download = "idle"

\* The history is not kept.
NoLog == [on |-> FALSE, entries |-> <<>>]

\* The history with entries added, where it is kept.
Logged(entries) == IF log.on THEN [on |-> TRUE, entries |-> log.entries \o entries] ELSE log

\* A fetch of call r: "session" for POST /api/sessions, "query" for POST
\* /api/query, "session_rejected" for the rejection of the first.
Fetch(op, r) == [op |-> op, run |-> r]

\* The answer of POST /api/sessions to call r.
SessionAnswer(r, response) == [op |-> "session_answer", run |-> r, response |-> response]

Init == InitBase /\ wire = <<>> /\ log = NoLog

(***************************************************************************)
(* The user's edits of the form.                                           *)
(***************************************************************************)

\* The user types into the architecture input.
SetInput(t) ==
    /\ inputValue # t
    /\ inputValue' = t
    /\ UNCHANGED <<agentStatuses, fullReport, pdfFilePath, currentSessionId, abortController, aborted,
                   reportContent, analyzeBtn, resetBtn, downloadBtn, uploadedFile, runs, trace, wire, sent, log, download, chunks>>

\* FileAccepted, were the type of the file not looked at.
FileAcceptedAnyType(file) == ~(file.size > MaxFileSize)

\* A file passes the checks of handleFileSelect.
FileAccepted(file) == StartsWith(file.type, "image/") /\ ~(file.size > MaxFileSize)

\* handleFileSelect
HandleFileSelect(file) ==
    /\ uploadedFile' = IF FileAccepted(file) THEN file ELSE uploadedFile
    /\ UNCHANGED <<agentStatuses, fullReport, pdfFilePath, currentSessionId, abortController, aborted,
                   reportContent, analyzeBtn, resetBtn, downloadBtn, inputValue, runs, trace, wire, sent, log, download, chunks>>

\* removeFile
RemoveFile ==
    /\ uploadedFile' = NoFile
    /\ UNCHANGED <<agentStatuses, fullReport, pdfFilePath, currentSessionId, abortController, aborted,
                   reportContent, analyzeBtn, resetBtn, downloadBtn, inputValue, runs, trace, wire, sent, log, download, chunks>>

(***************************************************************************)
(* startAnalysis and the steps of a run.                                   *)
(***************************************************************************)

\* The controllers aborted once abort() was called on the current one.
AbortCurrent == IF abortController # 0 THEN aborted \cup {abortController} ELSE aborted

\* Call r has returned: its locals are gone, how it ended is kept.
Ended(how) == [NoRun EXCEPT !.pc = how]

\* The catch block, were it to complete the active stages as the end of the stream does.
SurfaceErrorCompleting(r, message) ==
    /\ reportContent' = Display("error", message)
    /\ analyzeBtn' = FALSE
    /\ resetBtn' = FALSE
    /\ runs' = [runs EXCEPT ![r] = Ended("failed")]
    /\ agentStatuses' = [s \in Stages |-> IF agentStatuses[s] = "active" THEN "completed" ELSE agentStatuses[s]]
    /\ UNCHANGED <<fullReport, pdfFilePath, downloadBtn>>

\* The catch block, were it to enable the download control with the other two.
SurfaceErrorEnablingDownload(r, message) ==
    /\ reportContent' = Display("error", message)
    /\ analyzeBtn' = FALSE
    /\ resetBtn' = FALSE
    /\ downloadBtn' = FALSE
    /\ runs' = [runs EXCEPT ![r] = Ended("failed")]
    /\ UNCHANGED <<agentStatuses, fullReport, pdfFilePath>>

\* The catch block of startAnalysis for an error that is no AbortError.
SurfaceError(r, message) ==
    /\ reportContent' = Display("error", message)
    /\ analyzeBtn' = FALSE
    /\ resetBtn' = FALSE
    /\ runs' = [runs EXCEPT ![r] = Ended("failed")]
    /\ UNCHANGED <<agentStatuses, fullReport, pdfFilePath, downloadBtn>>

\* The fetch of /api/query is issued with the signal of the current controller.
IssueQuery(run, parts) == [run EXCEPT !.pc = "query", !.parts = parts, !.signal = abortController]

\* StartAnalysis, were the reset control left as it is.
StartAnalysisKeepingReset(r) ==
    /\ runs[r].pc = "none"
    /\ \A q \in Runs : q < r => runs[q].pc # "none"
    /\ LET architectureText == Trim(inputValue)
       IN IF architectureText = "" /\ uploadedFile = NoFile
          THEN UNCHANGED vars
          ELSE /\ fullReport' = ""
               /\ reportContent' = Display("starting", "")
               /\ agentStatuses' = Waiting
               /\ analyzeBtn' = TRUE
               /\ downloadBtn' = TRUE
               /\ aborted' = AbortCurrent
               /\ abortController' = r
               /\ runs' = [runs EXCEPT ![r] = [NoRun EXCEPT !.pc = "session", !.architectureText = architectureText]]
               /\ trace' = <<>>
               /\ log' = Logged(<<Fetch("session", r)>>)
               /\ UNCHANGED <<resetBtn, pdfFilePath, currentSessionId, inputValue, uploadedFile, wire, sent, download, chunks>>

\* startAnalysis, as call r, up to its first await (createSession).
StartAnalysis(r) ==
    /\ runs[r].pc = "none"
    /\ \A q \in Runs : q < r => runs[q].pc # "none"
    /\ LET architectureText == Trim(inputValue)
       IN IF architectureText = "" /\ uploadedFile = NoFile
          THEN UNCHANGED vars
          ELSE /\ fullReport' = ""
               /\ reportContent' = Display("starting", "")
               /\ agentStatuses' = Waiting
               /\ analyzeBtn' = TRUE
               /\ resetBtn' = TRUE
               /\ downloadBtn' = TRUE
               /\ aborted' = AbortCurrent
               /\ abortController' = r
               /\ runs' = [runs EXCEPT ![r] = [NoRun EXCEPT !.pc = "session", !.architectureText = architectureText]]
               /\ trace' = <<>>
               /\ log' = Logged(<<Fetch("session", r)>>)
               /\ UNCHANGED <<pdfFilePath, currentSessionId, inputValue, uploadedFile, wire, sent, download, chunks>>

\* The answers of POST /api/sessions: ok, and the two identifier fields.
SessionResponses ==
    {[ok |-> TRUE, id |-> "s1", session_id |-> ""],
     [ok |-> TRUE, id |-> "", session_id |-> "s1"],
     [ok |-> TRUE, id |-> "", session_id |-> ""],
     [ok |-> FALSE, id |-> "", session_id |-> ""]}

\* The message parts with the text, when there is one.
TextParts(run) == IF run.architectureText # "" THEN <<[kind |-> "text", mimeType |-> ""]>> ELSE <<>>

\* SessionReply, were any answer of the server taken for a session.
SessionReplyUnchecked(r, response) ==
    /\ runs[r].pc = "session"
    /\ currentSessionId' = (IF response.id # "" THEN response.id ELSE response.session_id)
    /\ log' = Logged(IF uploadedFile # NoFile THEN <<SessionAnswer(r, response)>>
                     ELSE <<SessionAnswer(r, response), Fetch("query", r)>>)
    /\ runs' = [runs EXCEPT ![r] =
                   IF uploadedFile # NoFile
                   THEN [runs[r] EXCEPT !.pc = "file", !.file = uploadedFile, !.parts = TextParts(runs[r])]
                   ELSE IssueQuery(runs[r], TextParts(runs[r]))]
    /\ UNCHANGED <<agentStatuses, fullReport, pdfFilePath, reportContent, analyzeBtn, resetBtn, downloadBtn,
                   abortController, aborted, inputValue, uploadedFile, trace, wire, sent, download, chunks>>

\* createSession answers call r; startAnalysis goes on to its next await.
SessionReply(r, response) ==
    /\ runs[r].pc = "session"
    /\ LET sessionId == IF response.id # "" THEN response.id ELSE response.session_id
       IN IF ~response.ok
          THEN /\ SurfaceError(r, "Failed to create session")
               /\ log' = Logged(<<SessionAnswer(r, response)>>)
               /\ UNCHANGED currentSessionId
          ELSE IF sessionId = ""
          THEN /\ SurfaceError(r, "Session ID not found in response")
               /\ log' = Logged(<<SessionAnswer(r, response)>>)
               /\ UNCHANGED currentSessionId
          ELSE /\ currentSessionId' = sessionId
               /\ log' = Logged(IF uploadedFile # NoFile THEN <<SessionAnswer(r, response)>>
                                ELSE <<SessionAnswer(r, response), Fetch("query", r)>>)
               /\ runs' = [runs EXCEPT ![r] =
                              IF uploadedFile # NoFile
                              THEN [runs[r] EXCEPT !.pc = "file", !.file = uploadedFile, !.parts = TextParts(runs[r])]
                              ELSE IssueQuery(runs[r], TextParts(runs[r]))]
               /\ UNCHANGED <<agentStatuses, fullReport, pdfFilePath, reportContent,
                              analyzeBtn, resetBtn, downloadBtn>>
    /\ UNCHANGED <<abortController, aborted, inputValue, uploadedFile, trace, wire, sent, download, chunks>>

\* The fetch of createSession is rejected (a network failure).
SessionReject(r) ==
    /\ runs[r].pc = "session"
    /\ SurfaceError(r, "Failed to fetch")
    /\ log' = Logged(<<Fetch("session_rejected", r)>>)
    /\ UNCHANGED <<currentSessionId, abortController, aborted, inputValue, uploadedFile, trace, wire, sent, download, chunks>>

\* fileToBase64 resolves with the data of the file it was given.
FileConverted(r) ==
    /\ runs[r].pc = "file"
    /\ runs' = [runs EXCEPT ![r] = IssueQuery(runs[r], Append(runs[r].parts,
                                                [kind |-> "inlineData", mimeType |-> runs[r].file.type]))]
    /\ log' = Logged(<<Fetch("query", r)>>)
    /\ UNCHANGED <<agentStatuses, fullReport, pdfFilePath, currentSessionId, abortController, aborted,
                   reportContent, analyzeBtn, resetBtn, downloadBtn, inputValue, uploadedFile, trace, wire, sent, download, chunks>>

\* fileToBase64 rejects (the reader's onerror).
FileReject(r) ==
    /\ runs[r].pc = "file"
    /\ SurfaceError(r, "File read failed")
    /\ UNCHANGED <<currentSessionId, abortController, aborted, inputValue, uploadedFile, trace, wire, sent, log, download, chunks>>

(***************************************************************************)
(* streamQuery.                                                            *)
(***************************************************************************)

\* The signal the fetch of call r was given has been aborted.
Aborted(r) == runs[r].signal \in aborted

\* The failures of the query other than an abort, with the message of each.
QueryFailures == {"Query failed", "Response body is null"}

\* QueryOk, were the stages left as they are.
QueryOkLeavingStages(r) ==
    /\ runs[r].pc = "query"
    /\ ~Aborted(r)
    /\ reportContent' = Display("processing", "")
    /\ runs' = [runs EXCEPT ![r] = [NoRun EXCEPT !.pc = "reading", !.signal = runs[r].signal]]
    /\ UNCHANGED <<agentStatuses, fullReport, pdfFilePath, currentSessionId, abortController, aborted,
                   analyzeBtn, resetBtn, downloadBtn, inputValue, uploadedFile, trace, wire, sent, log, download, chunks>>

\* The response is accepted: orchestrator is set active and the read loop
\* starts, suspended in its first reader.read().  The request was sent: the
\* locals that built it are read no more, the signal and the decoder remain.
QueryOk(r) ==
    /\ runs[r].pc = "query"
    /\ ~Aborted(r)
    /\ agentStatuses' = [agentStatuses EXCEPT !["orchestrator"] = "active"]
    /\ reportContent' = Display("processing", "")
    /\ runs' = [runs EXCEPT ![r] = [NoRun EXCEPT !.pc = "reading", !.signal = runs[r].signal]]
    /\ UNCHANGED <<fullReport, pdfFilePath, currentSessionId, abortController, aborted,
                   analyzeBtn, resetBtn, downloadBtn, inputValue, uploadedFile, trace, wire, sent, log, download, chunks>>

\* The response is not ok, or has no body, or the fetch is rejected by the network.
QueryFail(r, message) ==
    /\ runs[r].pc = "query"
    /\ ~Aborted(r)
    /\ SurfaceError(r, message)
    /\ UNCHANGED <<currentSessionId, abortController, aborted, inputValue, uploadedFile, trace, wire, sent, log, download, chunks>>

\* The fetch is rejected with an AbortError: startAnalysis returns silently.
QueryAbort(r) ==
    /\ runs[r].pc = "query"
    /\ Aborted(r)
    /\ runs' = [runs EXCEPT ![r] = Ended("cancelled")]
    /\ UNCHANGED <<agentStatuses, fullReport, pdfFilePath, currentSessionId, abortController, aborted,
                   reportContent, analyzeBtn, resetBtn, downloadBtn, inputValue, uploadedFile, trace, wire, sent, log, download, chunks>>

\* ReadChunk, were the report displayed as its text arrives.
ReadChunkRendering(r, chunk) ==
    /\ runs[r].pc = "reading"
    /\ ~Aborted(r)
    /\ \E fed \in {Feed(runs[r].buffer, runs[r].pending, chunk)} :
         \E g \in {ProcessAll(Shared, fed.keys, 1)} :
            /\ runs' = [runs EXCEPT ![r].buffer = fed.buffer, ![r].pending = fed.pending]
            /\ agentStatuses' = g.agentStatuses
            /\ fullReport' = g.fullReport
            /\ pdfFilePath' = g.pdfFilePath
            /\ reportContent' = UpdateReportDisplay(g.fullReport)
    /\ UNCHANGED <<currentSessionId, abortController, aborted,
                   analyzeBtn, resetBtn, downloadBtn, inputValue, uploadedFile>>

\* reader.read() of call r resolves with a chunk: the chunk is decoded and
\* every event of its complete lines is processed before the next read.
ReadChunk(r, chunk) ==
    /\ runs[r].pc = "reading"
    /\ ~Aborted(r)
    /\ \E fed \in {Feed(runs[r].buffer, runs[r].pending, chunk)} :
         \E g \in {ProcessAll(Shared, fed.keys, 1)} :
            /\ runs' = [runs EXCEPT ![r].buffer = fed.buffer, ![r].pending = fed.pending]
            /\ agentStatuses' = g.agentStatuses
            /\ fullReport' = g.fullReport
            /\ pdfFilePath' = g.pdfFilePath
    /\ UNCHANGED <<currentSessionId, abortController, aborted, reportContent,
                   analyzeBtn, resetBtn, downloadBtn, inputValue, uploadedFile>>

\* The end-of-stream loop, were it to leave every status alone.
FinalizeNothing(st) == st

\* The end-of-stream loop, were it to complete every stage.
FinalizeAll(st) == [s \in Stages |-> "completed"]

\* The statuses after the end-of-stream loop over the five stages.
Finalize(st) == [s \in Stages |-> IF st[s] = "active" \/ st[s] = "completed" THEN "completed" ELSE st[s]]

\* StreamDone, were the rest of the buffer taken for a last line.
StreamDoneFlushing(r) ==
    /\ runs[r].pc = "reading"
    /\ ~Aborted(r)
    /\ \E g \in {ProcessAll(Shared, LineKeys(Trim(runs[r].buffer)), 1)} :
          /\ agentStatuses' = Finalize(g.agentStatuses)
          /\ fullReport' = g.fullReport
          /\ pdfFilePath' = g.pdfFilePath
          /\ reportContent' = UpdateReportDisplay(g.fullReport)
    /\ analyzeBtn' = FALSE
    /\ resetBtn' = FALSE
    /\ downloadBtn' = FALSE
    /\ runs' = [runs EXCEPT ![r] = Ended("done")]
    /\ UNCHANGED <<currentSessionId, abortController, aborted,
                   inputValue, uploadedFile, trace, wire, sent, log, download, chunks>>

\* reader.read() of call r resolves with done.
StreamDone(r) ==
    /\ runs[r].pc = "reading"
    /\ ~Aborted(r)
    /\ agentStatuses' = Finalize(agentStatuses)
    /\ reportContent' = UpdateReportDisplay(fullReport)
    /\ analyzeBtn' = FALSE
    /\ resetBtn' = FALSE
    /\ downloadBtn' = FALSE
    /\ runs' = [runs EXCEPT ![r] = Ended("done")]
    /\ UNCHANGED <<fullReport, pdfFilePath, currentSessionId, abortController, aborted,
                   inputValue, uploadedFile, trace, wire, sent, log, download, chunks>>

\* reader.read() of call r rejects with an error that is no AbortError.
ReadFail(r) ==
    /\ runs[r].pc = "reading"
    /\ ~Aborted(r)
    /\ SurfaceError(r, "network error")
    /\ UNCHANGED <<currentSessionId, abortController, aborted, inputValue, uploadedFile, trace, wire, sent, log, download, chunks>>

\* The cancellation of the read loop, were the AbortError shown like any other error.
StreamCancelledAsError(r) ==
    /\ runs[r].pc = "reading"
    /\ Aborted(r)
    /\ SurfaceError(r, "The user aborted a request.")
    /\ UNCHANGED <<currentSessionId, abortController, aborted, inputValue, uploadedFile, trace, wire, sent, log, download, chunks>>

\* reader.read() of call r rejects with an AbortError: streamQuery returns.
StreamCancelled(r) ==
    /\ runs[r].pc = "reading"
    /\ Aborted(r)
    /\ runs' = [runs EXCEPT ![r] = Ended("stream_cancelled")]
    /\ UNCHANGED <<agentStatuses, fullReport, pdfFilePath, currentSessionId, abortController, aborted,
                   reportContent, analyzeBtn, resetBtn, downloadBtn, inputValue, uploadedFile, trace, wire, sent, log, download, chunks>>

\* resetAnalysis
ResetAnalysis ==
    /\ aborted' = AbortCurrent
    /\ currentSessionId' = Null
    /\ fullReport' = ""
    /\ pdfFilePath' = Null
    /\ agentStatuses' = Waiting
    /\ inputValue' = ""
    /\ uploadedFile' = NoFile
    /\ reportContent' = Display("reset", "")
    /\ analyzeBtn' = FALSE
    /\ resetBtn' = TRUE
    /\ downloadBtn' = TRUE
    /\ trace' = <<>>
    /\ UNCHANGED <<abortController, runs, wire, sent, log, download, chunks>>

(***************************************************************************)
(* The program: any call of a handler at any time, any answer of the       *)
(* server, and a stream that delivers the chunks of Chunks.                *)
(***************************************************************************)

\* The line of the event with key k.
Line(k) == "data: {" \o k \o "}\n"

\* The events a stream of the program's specification delivers.
StreamKeys == {"P", "r"}

\* The chunks a stream of the program's specification delivers: a whole
\* line of each event, and a line in two halves.
Chunks == {Bytes(Line(k)) : k \in StreamKeys} \cup {Bytes("data: {r"), Bytes("}\n")}

\* trace with the events of keys added, cut at cap events.
Record(keys, cap) ==
    IF trace # <<"more">> /\ Len(trace \o keys) <= cap THEN trace \o keys ELSE <<"more">>

\* A chunk arrives on the stream of call r.
Deliver(r) ==
    \E chunk \in Chunks :
        /\ ReadChunk(r, chunk)
        /\ Len(runs'[r].buffer) <= MaxBuffer
        /\ Len(fullReport') <= MaxReportLen
        /\ UNCHANGED <<trace, wire, sent, log, download, chunks>>

Next ==
    \/ \E t \in InputTexts : SetInput(t)
    \/ \E file \in Files : HandleFileSelect(file)
    \/ RemoveFile
    \/ ResetAnalysis
    \/ \E r \in Runs :
          \/ StartAnalysis(r)
          \/ \E response \in SessionResponses : SessionReply(r, response)
          \/ SessionReject(r)
          \/ FileConverted(r)
          \/ FileReject(r)
          \/ QueryOk(r)
          \/ \E message \in QueryFailures : QueryFail(r, message)
          \/ QueryAbort(r)
          \/ Deliver(r)
          \/ StreamDone(r)
          \/ ReadFail(r)
          \/ StreamCancelled(r)

Spec == Init /\ [][Next]_vars

(***************************************************************************)
(* One run and every event: the page is loaded, one analysis is started    *)
(* and its stream delivers, one line per chunk, any events of AllKeys.     *)
(***************************************************************************)

\* The longest report buffer the stream of the one run may build.
MaxEventText == 2

\* The answer of createSession in the one-run specifications.
SessionOk == [ok |-> TRUE, id |-> "s1", session_id |-> ""]

\* The one run up to its read loop.
OpenStream ==
    \/ SetInput("arch")
    \/ StartAnalysis(1)
    \/ SessionReply(1, SessionOk)
    \/ QueryOk(1)

\* The chunk that holds the line of each event.
LineChunk == [k \in AllKeys |-> Bytes(Line(k))]

\* The line of one event arrives as one chunk.
DeliverEvent ==
    \E k \in AllKeys :
        /\ ReadChunk(1, LineChunk[k])
        /\ Len(fullReport') <= MaxEventText
        /\ trace' = Record(Feed(runs[1].buffer, runs[1].pending, LineChunk[k]).keys, MaxTrace)
        /\ UNCHANGED <<wire, sent, log, download, chunks>>

NextEvents == OpenStream \/ DeliverEvent \/ StreamDone(1)

SpecEvents == Init /\ [][NextEvents]_vars

(***************************************************************************)
(* The decoder: the server sends a text of at most MaxSegments segments,   *)
(* cut into chunks at any byte.                                            *)
(***************************************************************************)

\* The number of segments of a stream text.
MaxSegments == 2

\* The line of the event E, whose key is a two-byte character.
TwoByteLine == Bytes("data: {") \o <<"C3", "A9">> \o Bytes("}\n")

\* The segments: a frame, a frame that is not JSON, a padded frame that
\* ends in CR LF, a frame with a two-byte character, a blank line, and a
\* frame without its line break.
Segments == {Bytes("data: {P}\n"), Bytes("data: {p\n"), Bytes(" data: {m} \r\n"), TwoByteLine,
             Bytes("\n"), Bytes("data: {p}")}

RECURSIVE TextsOf(_)
TextsOf(n) == IF n = 0 THEN {<<>>} ELSE TextsOf(n - 1) \cup {t \o seg : t \in TextsOf(n - 1), seg \in Segments}

WireTexts == TextsOf(MaxSegments)

InitDecode == InitBase /\ wire \in WireTexts /\ log = NoLog

\* The next n bytes of the text arrive as one chunk.
DeliverBytes ==
    \E n \in 1..Len(wire) :
        LET chunk == SubSeq(wire, 1, n)
        IN /\ ReadChunk(1, chunk)
           /\ wire' = SubSeq(wire, n + 1, Len(wire))
           /\ sent' = sent \o chunk
           /\ chunks' = chunks + 1
           /\ trace' = trace \o Feed(runs[1].buffer, runs[1].pending, chunk).keys
           /\ UNCHANGED <<log, download>>

\* The stream ends once the whole text was sent.
EndOfText == wire = <<>> /\ StreamDone(1)

NextDecode == OpenStream \/ DeliverBytes \/ EndOfText

SpecDecode == InitDecode /\ [][NextDecode]_vars

(***************************************************************************)
(* One run and the fields of an event: the stream delivers, one line per   *)
(* chunk, events that vary the author, the finishReason, the content, the  *)
(* tool calls and the artifactDelta.                                       *)
(***************************************************************************)

\* The number of events the stream of the one run delivers.
MaxFieldEvents == 2

\* Authors: names of the table, names only the fuzzy matching resolves,
\* names it does not resolve, and a name the table object inherits.
Authors == {"threat_model_orchestrator", "architecture_parser_agent", "Report_Parser", "ThreatModeler",
            "Threat_Orchestration", "content_writer", "report_verification", "Escalation-Checker",
            "ORCHESTRATOR", "Orchestrator_Parser", "builder_verifier", "Summary_Agent", "constructor"}

\* The events that vary the author, without and with a completion reason.
AuthorEvents == {AuthorEvent(a, fr) : a \in Authors, fr \in {"", "STOP"}}

\* The contents: absent, a string, an empty string, a parts list with an
\* empty part, a text field, and a parts list beside a text field.
Contents == {NoContent, StringContent("x"), StringContent(""), PartsContent(<<"y", "", "z">>),
             TextContent("t"), [shape |-> "parts", text |-> "t", parts |-> <<>>]}

\* An artifactDelta whose one entry, named report.pdf, is null.
NullPdfDelta == <<Artifact("report.pdf", TRUE, "")>>

\* The events that vary the content, without and with the null entry.
ContentEvents == {Event("", "", c, <<>>, d) : c \in Contents, d \in {<<>>, NullPdfDelta}}

\* The artifactDelta maps: a .pdf entry, an entry of another name, two .pdf
\* entries, a .pdf entry before another name, a .pdf entry without filePath,
\* and a null .pdf entry before and after a .pdf entry.
Deltas ==
    {<<Artifact("report.pdf", FALSE, "/tmp/report.pdf")>>,
     <<Artifact("notes.md", FALSE, "/tmp/notes.md")>>,
     <<Artifact("a.pdf", FALSE, "/tmp/a.pdf"), Artifact("b.pdf", FALSE, "/tmp/b.pdf")>>,
     <<Artifact("b.pdf", FALSE, "/tmp/b.pdf"), Artifact("notes.md", FALSE, "/tmp/notes.md")>>,
     <<Artifact("plain.pdf", FALSE, "")>>,
     <<Artifact("report.pdf", TRUE, ""), Artifact("b.pdf", FALSE, "/tmp/b.pdf")>>,
     <<Artifact("a.pdf", FALSE, "/tmp/a.pdf"), Artifact("report.pdf", TRUE, "")>>}

\* A convert_markdown_to_pdf call whose response object names a document.
ConvertCall == ToolCall("convert_markdown_to_pdf", "object", "/out/final.pdf")

\* The events that vary the artifactDelta, without and with the call.
DeltaEvents == {Event("", "", NoContent, t, d) : t \in {<<>>, <<ConvertCall>>}, d \in Deltas}

\* The authors of the side-channel events: none, the two spellings of the
\* nested loop, a spelling in other case, and the builder itself.
SideAuthors == {"", "verification_loop", "run-verification-loop-2", "Verification_Loop", "report_builder_agent"}

\* The tool call lists: none, a builder tool, a builder tool after another
\* tool, and another tool alone.
SideTools == {<<>>,
              <<ToolCall("write_file", "none", "")>>,
              <<ToolCall("read_file", "none", ""), ToolCall("convert_markdown_to_pdf", "none", "")>>,
              <<ToolCall("read_file", "none", "")>>}

\* The events that vary the side channels.
SideEvents == {Event(a, fr, NoContent, t, <<>>) : a \in SideAuthors, fr \in {"", "STOP"}, t \in SideTools}

\* The values of finishReason that are no completion reason: absent, a
\* reason of another name, and a completion reason in other case.
OtherReasons == {"", "OTHER", "stop"}

\* The events that vary the finishReason: a stage of the table or a name
\* that is no stage, without and with a builder tool call.
ReasonEvents ==
    {Event(a, fr, NoContent, t, <<>>) :
        a \in {"architecture_parser_agent", "threat_modeler_agent", "Summary_Agent"},
        fr \in OtherReasons \cup {"DONE", "MAX_TOKENS"},
        t \in {<<>>, <<ToolCall("write_file", "none", "")>>}}

\* The events that raise in processStreamEvent, and those like them that do
\* not: a stage that starts or completes, with or without text, with no
\* tool call, a convert_markdown_to_pdf call whose string response is no
\* JSON, or such a call between two calls with a response object; with no
\* artifactDelta, a null .pdf entry, or a null .pdf entry between two others.
FaultEvents ==
    {Event("architecture_parser_agent", fr, c, t, d) :
        fr \in {"", "STOP"},
        c \in {NoContent, StringContent("x")},
        t \in {<<>>,
               <<ToolCall("convert_markdown_to_pdf", "text", "")>>,
               <<ConvertCall, ToolCall("convert_markdown_to_pdf", "text", ""),
                 ToolCall("convert_markdown_to_pdf", "object", "/out/late.pdf")>>},
        d \in {<<>>,
               NullPdfDelta,
               <<Artifact("a.pdf", FALSE, "/tmp/a.pdf"), Artifact("report.pdf", TRUE, ""),
                 Artifact("b.pdf", FALSE, "/tmp/b.pdf")>>}}

\* The events the stream of the one run delivers.
FieldEvents ==
    AuthorEvents \cup ContentEvents \cup DeltaEvents \cup SideEvents \cup ReasonEvents \cup FaultEvents

\* What processStreamEvent was called with, and the agentId it computed
\* ("" when the event has no author).
Call(event) ==
    [event |-> event, agentId |-> IF event.author = "" THEN "" ELSE ResolveAgent(event.author)]

\* The line of event e arrives as one chunk, with no partial line before
\* it: JSON.parse gives e, and processStreamEvent(e) runs.
DeliverFields ==
    \E e \in FieldEvents :
        /\ runs[1].pc = "reading"
        /\ ~Aborted(1)
        /\ runs[1].buffer = ""
        /\ chunks < MaxFieldEvents
        /\ \E g \in {ProcessStreamEvent(Shared, e)} :
              /\ agentStatuses' = g.agentStatuses
              /\ fullReport' = g.fullReport
              /\ pdfFilePath' = g.pdfFilePath
        /\ trace' = <<Call(e)>>
        /\ chunks' = chunks + 1
        /\ UNCHANGED <<currentSessionId, abortController, aborted, reportContent, analyzeBtn, resetBtn,
                       downloadBtn, inputValue, uploadedFile, runs, wire, sent, log, download>>

NextFields == OpenStream \/ DeliverFields \/ StreamDone(1)

SpecFields == Init /\ [][NextFields]_vars

(***************************************************************************)
(* The requests of one run and downloadReport: the server answers          *)
(* createSession, the query and the latest-PDF lookup in any way, the      *)
(* stream delivers report text, and downloadReport is called at any time.  *)
(* The history of requests, answers, downloads and alerts is kept.         *)
(***************************************************************************)

\* The number of calls of downloadReport a behaviour holds.
MaxDownloads == 1

\* The answers of GET /api/reports/latest-pdf: the status, whether the
\* body is JSON, and the filename field of the JSON.
LookupResponses ==
    {[status |-> 200, json |-> TRUE, filename |-> "report.pdf"],
     [status |-> 200, json |-> FALSE, filename |-> ""],
     [status |-> 404, json |-> TRUE, filename |-> ""],
     [status |-> 500, json |-> FALSE, filename |-> ""]}

\* response.ok
ResponseOk(response) == response.status \in 200..299

\* The fetch of the lookup ("lookup") and its rejection
\* ("lookup_rejected"); its answer; the click on an anchor that downloads
\* the PDF filename; the click on an anchor that downloads a text/markdown
\* Blob of text; alert(message).
Lookup(op) == [op |-> op]
LookupAnswer(response) == [op |-> "lookup_answer", answer |-> response]
PdfDownload(filename) == [op |-> "pdf", filename |-> filename]
MarkdownDownload(text) == [op |-> "markdown", text |-> text]
Alert(message) == [op |-> "alert", text |-> message]

\* downloadReportAsMarkdown, were it to export whatever the buffer holds.
DownloadReportAsMarkdownAlways(report) == <<MarkdownDownload(report)>>

\* downloadReportAsMarkdown: what it does with the report buffer.
DownloadReportAsMarkdown(report) ==
    IF Trim(report) = "" THEN <<Alert("No report to download")>> ELSE <<MarkdownDownload(report)>>

\* The calls of downloadReport made so far.
Lookups == {i \in DOMAIN log.entries : log.entries[i].op = "lookup"}

\* downloadReport up to its await of the lookup.
DownloadReport ==
    /\ download = "idle"
    /\ Cardinality(Lookups) < MaxDownloads
    /\ download' = "lookup"
    /\ log' = Logged(<<Lookup("lookup")>>)
    /\ UNCHANGED <<agentStatuses, fullReport, pdfFilePath, currentSessionId, abortController, aborted,
                   reportContent, analyzeBtn, resetBtn, downloadBtn, inputValue, uploadedFile, runs,
                   trace, wire, sent, chunks>>

\* What downloadReport does once the lookup has answered with response.
AfterLookup(response, report) ==
    IF ResponseOk(response)
    THEN IF response.json THEN <<PdfDownload(response.filename)>>
         ELSE DownloadReportAsMarkdown(report)
    ELSE IF response.status = 404 THEN DownloadReportAsMarkdown(report)
    ELSE DownloadReportAsMarkdown(report)

\* The lookup answers; downloadReport runs to its end.
LookupReply(response) ==
    /\ download = "lookup"
    /\ download' = "idle"
    /\ log' = Logged(<<LookupAnswer(response)>> \o AfterLookup(response, fullReport))
    /\ UNCHANGED <<agentStatuses, fullReport, pdfFilePath, currentSessionId, abortController, aborted,
                   reportContent, analyzeBtn, resetBtn, downloadBtn, inputValue, uploadedFile, runs,
                   trace, wire, sent, chunks>>

\* The fetch of the lookup is rejected (a network failure): the catch
\* block runs.
LookupReject ==
    /\ download = "lookup"
    /\ download' = "idle"
    /\ log' = Logged(<<Lookup("lookup_rejected")>> \o DownloadReportAsMarkdown(fullReport))
    /\ UNCHANGED <<agentStatuses, fullReport, pdfFilePath, currentSessionId, abortController, aborted,
                   reportContent, analyzeBtn, resetBtn, downloadBtn, inputValue, uploadedFile, runs,
                   trace, wire, sent, chunks>>

\* The events of the stream: report text, and text that is blank.
ReportEvents == {Event("report_builder_agent", "", StringContent("x"), <<>>, <<>>),
                 Event("report_builder_agent", "", StringContent(" "), <<>>, <<>>)}

\* An event of ReportEvents arrives on the stream of the run, on a line of
\* its own.
DeliverReport ==
    \E e \in ReportEvents :
        /\ runs[1].pc = "reading"
        /\ ~Aborted(1)
        /\ runs[1].buffer = ""
        /\ \E g \in {ProcessStreamEvent(Shared, e)} :
              /\ agentStatuses' = g.agentStatuses
              /\ fullReport' = g.fullReport
              /\ pdfFilePath' = g.pdfFilePath
        /\ Len(fullReport') <= MaxReportLen
        /\ UNCHANGED <<currentSessionId, abortController, aborted, reportContent, analyzeBtn, resetBtn,
                       downloadBtn, inputValue, uploadedFile, runs, trace, wire, sent, log, download, chunks>>

InitRequests == InitBase /\ wire = <<>> /\ log = [on |-> TRUE, entries |-> <<>>]

NextRequests ==
    \/ SetInput("arch")
    \/ \E file \in Files : HandleFileSelect(file)
    \/ ResetAnalysis
    \/ StartAnalysis(1)
    \/ \E response \in SessionResponses : SessionReply(1, response)
    \/ SessionReject(1)
    \/ FileConverted(1)
    \/ FileReject(1)
    \/ QueryOk(1)
    \/ \E message \in QueryFailures : QueryFail(1, message)
    \/ QueryAbort(1)
    \/ DeliverReport
    \/ StreamDone(1)
    \/ ReadFail(1)
    \/ StreamCancelled(1)
    \/ DownloadReport
    \/ \E response \in LookupResponses : LookupReply(response)
    \/ LookupReject

SpecRequests == InitRequests /\ [][NextRequests]_vars

(***************************************************************************)
(* The report of one run: the stream delivers up to MaxFragments events    *)
(* whose text is a fragment of markdown, and ends.                         *)
(***************************************************************************)

\* The number of text events of the stream.
MaxFragments == 3

\* The texts of the events: a level-1 header line with the blank line
\* after it, bold text, a level-2 header line, emphasised text, plain text.
Fragments == {"# Title\n\n", "**bold**", "## Sub\n", "*em*", "x"}

\* An event with a fragment as its text arrives on a line of its own.
DeliverFragment ==
    \E f \in Fragments :
        /\ runs[1].pc = "reading"
        /\ ~Aborted(1)
        /\ runs[1].buffer = ""
        /\ chunks < MaxFragments
        /\ \E g \in {ProcessStreamEvent(Shared, Event("report_builder_agent", "", StringContent(f), <<>>, <<>>))} :
              /\ agentStatuses' = g.agentStatuses
              /\ fullReport' = g.fullReport
              /\ pdfFilePath' = g.pdfFilePath
        /\ chunks' = chunks + 1
        /\ UNCHANGED <<currentSessionId, abortController, aborted, reportContent, analyzeBtn, resetBtn,
                       downloadBtn, inputValue, uploadedFile, runs, trace, wire, sent, log, download>>

NextRender == OpenStream \/ DeliverFragment \/ StreamDone(1)

SpecRender == Init /\ [][NextRender]_vars

(***************************************************************************)
(* The page as the user drives it: the click handlers of the start and the *)
(* reset control run only while their control is enabled.  No call is      *)
(* superseded then, so no fetch and no read is rejected with an AbortError.*)
(***************************************************************************)

NextGuarded ==
    \/ \E t \in InputTexts : SetInput(t)
    \/ \E file \in Files : HandleFileSelect(file)
    \/ RemoveFile
    \/ ~resetBtn /\ ResetAnalysis
    \/ \E r \in Runs :
          \/ ~analyzeBtn /\ StartAnalysis(r)
          \/ \E response \in SessionResponses : SessionReply(r, response)
          \/ SessionReject(r)
          \/ FileConverted(r)
          \/ FileReject(r)
          \/ QueryOk(r)
          \/ \E message \in QueryFailures : QueryFail(r, message)
          \/ Deliver(r)
          \/ StreamDone(r)
          \/ ReadFail(r)

SpecGuarded == Init /\ [][NextGuarded]_vars

(***************************************************************************)
(* The properties.                                                         *)
(***************************************************************************)

\* Call r is between its start and its return.
InFlight(r) == runs[r].pc \in {"session", "file", "query", "reading"}

\* The step is the read of the line of event k by the one run.
StepOfEvent(k) == ReadChunk(1, LineChunk[k])

\* The stage the author of each event resolves to, "" without an author.
StageOf == [k \in AllKeys |-> IF EventOf(k).author = "" THEN "" ELSE ResolveAgent(EventOf(k).author)]

\* The events that carry a completion reason and resolve to a stage.
CompletionKeys == {k \in AllKeys : IsCompletion(EventOf(k).finishReason) /\ StageOf[k] \in Stages}

\* The step is the read of the line of the completion event k by the one run.
CompletionStep(k) ==
    /\ runs[1].pc = "reading"
    /\ runs'[1].pc = "reading"
    /\ agentStatuses'[StageOf[k]] = "completed"
    /\ StepOfEvent(k)

\* The stage after x in AGENT_SEQUENCE (x is not the last).
Successor(x) == AGENT_SEQUENCE[SequenceIndex(x) + 2]

\* One of the two side-channel checks matches the event.
SideChannelHit(event) == ToolStep(LoopStep(Waiting, event), event) # Waiting

\* Y is promoted if it was not started, and unchanged otherwise.
SuccessorRule(y) ==
    IF NotStartedIn(agentStatuses, y)
    THEN agentStatuses'[y] = "active"
    ELSE agentStatuses'[y] = agentStatuses[y]

\* C1: in one run, whatever events the stream delivers and when it ends,
\* no step takes a stage from completed to another status, and no step
\* takes a stage from active back to waiting.
C1_NoDemotion ==
    [][\A s \in Stages :
          /\ agentStatuses[s] = "completed" => agentStatuses'[s] = "completed"
          /\ agentStatuses[s] = "active" => agentStatuses'[s] \in {"active", "completed"}]_vars

\* A stage that was completed saw a later event of its own and the end of
\* the stream, and is still completed.
C1_Witness ==
    trace = <<"P", "p">> /\ runs[1].pc = "done" /\ agentStatuses["parser"] = "completed"

\* C2 as stated: never do two calls of startAnalysis both sit in the read
\* loop of a stream that was not cancelled.
C2_AtMostOneStream ==
    Cardinality({r \in Runs : runs[r].pc = "reading" /\ ~Aborted(r)}) <= 1

\* C3 as stated: a completion event for X promotes the successor Y exactly
\* when Y was not started, and a completion event for verifier promotes no
\* stage at all.
C3_Original ==
    [][\A k \in CompletionKeys :
          CompletionStep(k) =>
              LET x == StageOf[k]
              IN IF x # "verifier"
                 THEN SuccessorRule(Successor(x))
                 ELSE \A s \in Stages \ {x} : agentStatuses'[s] = agentStatuses[s]]_vars

\* C3 as amended: a completion event for X promotes the successor Y exactly
\* when Y was not started; a completion event for verifier changes no stage
\* but verifier, except that builder goes from not started to active when a
\* side-channel check matches the same event.
C3_SuccessorPromotion ==
    [][\A k \in CompletionKeys :
          CompletionStep(k) =>
              LET x == StageOf[k]
              IN IF x # "verifier"
                 THEN SuccessorRule(Successor(x))
                 ELSE /\ \A s \in Stages \ {x, "builder"} : agentStatuses'[s] = agentStatuses[s]
                      /\ agentStatuses'["builder"] =
                            IF SideChannelHit(EventOf(k)) /\ NotStartedIn(agentStatuses, "builder")
                            THEN "active"
                            ELSE agentStatuses["builder"]]_vars

\* The completion of parser came after the completion of modeler: the
\* successor of parser was completed already, and stayed so.
C3_Witness ==
    /\ trace = <<"M", "P">>
    /\ runs[1].pc = "reading"
    /\ agentStatuses["parser"] = "completed"
    /\ agentStatuses["modeler"] = "completed"
    /\ agentStatuses["builder"] = "active"

\* The events of the text bytes when it arrives as one chunk.
DecodeWhole(bytes) == Feed("", "", bytes).keys

\* C4: however the text sent so far was cut into chunks, the events passed
\* to processStreamEvent are those the same text gives as a single chunk.
C4_ChunkIndependent ==
    runs[1].pc \in {"reading", "done"} => trace = DecodeWhole(sent)

\* The frame with the two-byte character arrived one byte per chunk and
\* gave its event.
C4_Witness ==
    sent = TwoByteLine /\ chunks = Len(TwoByteLine) /\ trace = <<"E">> /\ wire # <<>>

\* The line of text that ends at the line break at place i.
LineEndingAt(text, i) ==
    LET before == {j \in 1..(i - 1) : SubSeq(text, j, j) = "\n"}
        from == IF before = {} THEN 1 ELSE (CHOOSE j \in before : \A q \in before : q <= j) + 1
    IN SubSeq(text, from, i - 1)

\* The event of a line that is a well-formed frame, none for any other line.
FrameOf(line) ==
    IF \E k \in AllKeys : Trim(line) = "data: {" \o k \o "}"
    THEN <<CHOOSE k \in AllKeys : Trim(line) = "data: {" \o k \o "}">>
    ELSE <<>>

\* The events of the well-formed frames among the first i characters of text.
RECURSIVE FramesUpTo(_, _)
FramesUpTo(text, i) ==
    IF i = 0 THEN <<>>
    ELSE FramesUpTo(text, i - 1) \o (IF SubSeq(text, i, i) = "\n" THEN FrameOf(LineEndingAt(text, i)) ELSE <<>>)

\* The text of the bytes sent so far.
SentText == TextDecode("", sent).text

C6_CancelIsSilent ==
    [][/\ ResetAnalysis =>
            /\ fullReport' = "" /\ pdfFilePath' = Null /\ agentStatuses' = Waiting
            /\ reportContent'.kind # "error"
            /\ \A r \in Runs : runs'[r].pc = "reading" => runs'[r].signal \in aborted'
       /\ \A r \in Runs :
            (runs[r].pc = "reading" /\ Aborted(r)) =>
                /\ runs'[r] \in {runs[r], Ended("stream_cancelled")}
                /\ runs'[r] # runs[r] =>
                      UNCHANGED <<reportContent, fullReport, pdfFilePath, agentStatuses>>
       /\ (\A r \in Runs : InFlight(r) => (runs[r].pc = "reading" /\ Aborted(r))) =>
            /\ fullReport' \in {fullReport, ""}
            /\ pdfFilePath' \in {pdfFilePath, Null}
            /\ agentStatuses' \in {agentStatuses, Waiting}]_vars

\* The only call was cancelled in its read loop, which only resetAnalysis
\* can have done, and the page is in the post-reset state.
C6_Witness ==
    /\ runs[1].pc = "stream_cancelled"
    /\ runs[2].pc = "none"
    /\ reportContent = Display("reset", "")
    /\ fullReport = "" /\ pdfFilePath = Null /\ agentStatuses = Waiting

\* C7 as stated: after the events p (parser) and P (parser, STOP) parser is
\* completed and modeler active; after the end of the stream both are
\* completed; orchestrator, builder and verifier are as at the run's start.
C7_Original ==
    trace = <<"p", "P">> =>
        /\ runs[1].pc = "reading" => agentStatuses["parser"] = "completed" /\ agentStatuses["modeler"] = "active"
        /\ runs[1].pc = "done" => agentStatuses["parser"] = "completed" /\ agentStatuses["modeler"] = "completed"
        /\ \A s \in {"orchestrator", "builder", "verifier"} : agentStatuses[s] = Waiting[s]

\* C7 as amended: builder and verifier are as at the run's start, and
\* orchestrator, active since the response was accepted, is active after the
\* two events and completed after the end of the stream.
C7_ParserScenario ==
    trace = <<"p", "P">> =>
        /\ runs[1].pc = "reading" =>
              /\ agentStatuses["parser"] = "completed" /\ agentStatuses["modeler"] = "active"
              /\ agentStatuses["orchestrator"] = "active"
        /\ runs[1].pc = "done" =>
              /\ agentStatuses["parser"] = "completed" /\ agentStatuses["modeler"] = "completed"
              /\ agentStatuses["orchestrator"] = "completed"
        /\ \A s \in {"builder", "verifier"} : agentStatuses[s] = Waiting[s]

\* The stream delivered p, then P, and ended.
C7_Witness == trace = <<"p", "P">> /\ runs[1].pc = "done"

\* C8: the step that ends the stream completes every active stage and
\* leaves every completed and every waiting stage as it is.
C8_Finalization ==
    [][(runs[1].pc = "reading" /\ runs'[1].pc = "done") =>
          \A s \in Stages :
              agentStatuses'[s] = IF agentStatuses[s] = "active" THEN "completed" ELSE agentStatuses[s]]_vars

\* The stream ended after one event of parser: parser and orchestrator, both
\* active, are completed, and the other stages still wait.
C8_Witness ==
    /\ trace = <<"p">>
    /\ runs[1].pc = "done"
    /\ agentStatuses = [Waiting EXCEPT !["parser"] = "completed", !["orchestrator"] = "completed"]

\* C9: the step in which a call fails with an error other than a
\* cancellation shows the error, enables the start control and changes the
\* status of no stage.
C9_ErrorKeepsStages ==
    [][\A r \in Runs :
          (InFlight(r) /\ runs'[r].pc = "failed") =>
              /\ reportContent'.kind = "error"
              /\ analyzeBtn' = FALSE
              /\ agentStatuses' = agentStatuses]_vars

\* A read failed in mid-stream: the error is shown with parser completed
\* and orchestrator and modeler still active.
C9_Witness ==
    /\ runs[1].pc = "failed"
    /\ runs[2].pc = "none"
    /\ reportContent = Display("error", "network error")
    /\ ~analyzeBtn
    /\ agentStatuses = [Waiting EXCEPT !["parser"] = "completed", !["orchestrator"] = "active",
                                       !["modeler"] = "active"]

\* C10 as stated: the step that starts a run, no other call being in
\* flight, leaves the report buffer empty and the artifact pointer unset.
C10_ClearedAtStart ==
    [][\A r \in Runs :
          (runs[r].pc = "none" /\ runs'[r].pc = "session" /\ \A q \in Runs : ~InFlight(q)) =>
              fullReport' = "" /\ pdfFilePath' = Null]_vars

\* The status changes of stage s in the step, as a pair.
Change(s) == <<agentStatuses[s], agentStatuses'[s]>>

\* C11 as stated: while the one run has its query or its stream open, every
\* change of a stage's status is waiting to active or active to completed.
C11_Original ==
    [][runs[1].pc \in {"query", "reading"} =>
          \A s \in Stages :
              agentStatuses'[s] # agentStatuses[s] =>
                  Change(s) \in {<<"waiting", "active">>, <<"active", "completed">>}]_vars

\* C11 as amended: every change is waiting to active, active to completed,
\* or waiting to completed; the last only in the processing of a completion
\* event that resolves to the stage; completed is never left.
C11_ForwardOnly ==
    [][runs[1].pc \in {"query", "reading"} =>
          \A s \in Stages :
              agentStatuses'[s] # agentStatuses[s] =>
                  \/ Change(s) \in {<<"waiting", "active">>, <<"active", "completed">>}
                  \/ /\ Change(s) = <<"waiting", "completed">>
                     /\ \E k \in CompletionKeys : StageOf[k] = s /\ StepOfEvent(k)]_vars

\* The first event of the stream completed modeler, which no event had made
\* active, and made builder active.
C11_Witness ==
    /\ trace = <<"M">>
    /\ runs[1].pc = "reading"
    /\ agentStatuses = [Waiting EXCEPT !["orchestrator"] = "active", !["modeler"] = "completed",
                                       !["builder"] = "active"]

\* The step is a call of processStreamEvent by the one run of the fields
\* specification; trace' holds the call.
FieldStep == chunks' = chunks + 1 /\ Len(trace') = 1

\* The words that stand for each stage, in the order the stages are tried.
StageKeywords ==
    <<[stage |-> "parser", words |-> {"parser", "architecture"}],
      [stage |-> "modeler", words |-> {"modeler", "threat"}],
      [stage |-> "builder", words |-> {"builder", "content", "report"}],
      [stage |-> "verifier", words |-> {"verifier", "verification", "escalation"}],
      [stage |-> "orchestrator", words |-> {"orchestrator", "orchestrat"}]>>

\* The names of the static actor table.
TableNames == {"threat_model_orchestrator", "architecture_parser_agent", "threat_modeler_agent",
               "report_builder_agent", "report_verifier_agent"}

\* The word counts for the name: threat does not count in a name that holds
\* orchestr, report does not count in a name that holds verif.
Counts(word, lower, exclusions) ==
    /\ Includes(lower, word)
    /\ ~(exclusions /\ word = "threat" /\ Includes(lower, "orchestr"))
    /\ ~(exclusions /\ word = "report" /\ Includes(lower, "verif"))

\* The stage of the first entry of StageKeywords one of whose words counts
\* for the name, and the lowercased name when there is none.
KeywordStage(author, exclusions) ==
    LET lower == ToLowerCase(author)
        hits == {i \in 1..Len(StageKeywords) : \E w \in StageKeywords[i].words : Counts(w, lower, exclusions)}
    IN IF hits = {} THEN lower
       ELSE StageKeywords[CHOOSE i \in hits : \A j \in hits : i <= j].stage

\* The effect of a call on the stage its author resolved to: a stage is
\* active or completed afterwards, completed after a completion reason; an id
\* that is no stage changes no status.
ResolutionEffect(call) ==
    IF call.agentId \in Stages
    THEN agentStatuses'[call.agentId] \in
            (IF IsCompletion(call.event.finishReason) THEN {"completed"} ELSE {"active", "completed"})
    ELSE agentStatuses' = agentStatuses

\* C12 as stated: a name of the table resolves to its entry, any other name
\* to the first stage in the order parser, modeler, builder, verifier,
\* orchestrator one of whose keywords the lowercased name holds, else to the
\* lowercased name, which changes no status.
C12_Original ==
    [][FieldStep /\ trace'[1].event \in AuthorEvents =>
          LET call == trace'[1]
              author == call.event.author
          IN /\ call.agentId = IF author \in TableNames THEN AGENT_MAPPING(author)
                               ELSE KeywordStage(author, FALSE)
             /\ ResolutionEffect(call)]_vars

\* C12 as amended: as stated, but threat does not count as a keyword of
\* modeler in a name that holds orchestr, report does not count as a keyword
\* of builder in a name that holds verif, and a name the table object
\* inherits resolves to the inherited value, which is no stage.
C12_Resolution ==
    [][FieldStep /\ trace'[1].event \in AuthorEvents =>
          LET call == trace'[1]
              author == call.event.author
          IN /\ call.agentId = IF author \in TableNames THEN AGENT_MAPPING(author)
                               ELSE IF author \in {"constructor", "toString"} THEN Inherited
                               ELSE KeywordStage(author, TRUE)
             /\ ResolutionEffect(call)]_vars

\* The name Threat_Orchestration, which holds threat and orchestr, was
\* resolved to orchestrator and completed it, modeler still waiting.
C12_Witness ==
    /\ Len(trace) = 1
    /\ chunks = 1
    /\ trace[1].event = AuthorEvent("Threat_Orchestration", "STOP")
    /\ agentStatuses["orchestrator"] = "completed"
    /\ agentStatuses["modeler"] = "waiting"

\* The text fragments of a content, in order: the string, the texts of the
\* parts of a parts list, or the text field.
FragmentsOf(content) ==
    IF content.shape = "string" THEN <<content.text>>
    ELSE IF content.shape = "parts" THEN content.parts
    ELSE IF content.shape = "text" THEN <<content.text>>
    ELSE <<>>

\* The fragments of frags from the i-th on, joined.
RECURSIVE Joined(_, _)
Joined(frags, i) == IF i > Len(frags) THEN "" ELSE frags[i] \o Joined(frags, i + 1)

\* C13 as stated: every call of processStreamEvent appends to the report
\* buffer the text fragments of the content of its event, in order, and
\* nothing else.
C13_AppendsAllText ==
    [][FieldStep => fullReport' = fullReport \o Joined(FragmentsOf(trace'[1].event.content), 1)]_vars

\* The places of the .pdf entries of an artifactDelta.
PdfEntries(delta) == {i \in 1..Len(delta) : EndsWith(delta[i].filename, ".pdf")}

\* The last place of a non-empty set of places.
Last(places) == CHOOSE i \in places : \A j \in places : j <= i

\* The .pdf entries that take effect: those before the first null one.
EffectiveEntries(delta) ==
    {i \in PdfEntries(delta) : \A j \in PdfEntries(delta) : j <= i => ~delta[j].isNull}

\* The scan of the artifactDelta raises: a .pdf entry is null.
ScanRaises(delta) == \E i \in PdfEntries(delta) : delta[i].isNull

\* The convert_markdown_to_pdf calls whose response names a .pdf document.
ConvertHits(calls) ==
    {i \in 1..Len(calls) : /\ calls[i].name = "convert_markdown_to_pdf"
                           /\ calls[i].kind \in {"object", "json"}
                           /\ EndsWith(calls[i].file_path, ".pdf")}

HasSideChannel(event) ==
    \/ Includes(event.author, "verification_loop")
    \/ Includes(event.author, "verification-loop")
    \/ \E i \in 1..Len(event.toolCalls) :
          Includes(event.toolCalls[i].name, "write_file") \/ Includes(event.toolCalls[i].name, "convert_markdown")

\* The event completes builder by its own author and completion reason.
CompletesBuilder(event) ==
    event.author # "" /\ ResolveAgent(event.author) = "builder" /\ IsCompletion(event.finishReason)

\* The stages other than builder are as the author and the completion
\* reason of the event alone leave them.
OthersByAuthor(event) ==
    \A s \in Stages \ {"builder"} : agentStatuses'[s] = AuthorStep(agentStatuses, event)[s]

\* C15 as stated: an event with a side channel makes builder active when it
\* was not started and leaves it as it was otherwise, and the side channels
\* change no other stage.
C15_Original ==
    [][FieldStep /\ trace'[1].event \in SideEvents /\ HasSideChannel(trace'[1].event) =>
          /\ agentStatuses'["builder"] = IF NotStartedIn(agentStatuses, "builder") THEN "active"
                                         ELSE agentStatuses["builder"]
          /\ OthersByAuthor(trace'[1].event)]_vars

\* C15 as amended: as stated, except that builder is completed after an
\* event that completes builder by its own author and completion reason.
C15_SideChannel ==
    [][FieldStep /\ trace'[1].event \in SideEvents /\ HasSideChannel(trace'[1].event) =>
          /\ agentStatuses'["builder"] = IF CompletesBuilder(trace'[1].event) THEN "completed"
                                         ELSE IF NotStartedIn(agentStatuses, "builder") THEN "active"
                                         ELSE agentStatuses["builder"]
          /\ OthersByAuthor(trace'[1].event)]_vars

\* An event without author whose second tool call is convert_markdown_to_pdf
\* made builder active, and changed no other stage.
C15_Witness ==
    /\ chunks = 1
    /\ Len(trace) = 1
    /\ trace[1].event = Event("", "", NoContent, <<ToolCall("read_file", "none", ""),
                                                   ToolCall("convert_markdown_to_pdf", "none", "")>>, <<>>)
    /\ agentStatuses = [Waiting EXCEPT !["orchestrator"] = "active", !["builder"] = "active"]

\* The event carries none of the three completion reasons.
NonCompletion(event) == event.finishReason \notin {"STOP", "DONE", "MAX_TOKENS"}

\* The stage of the call is active afterwards if it was not started, and
\* as it was otherwise; no stage is newly completed.
FirstSighting(call) ==
    /\ call.agentId \in Stages =>
          agentStatuses'[call.agentId] = IF NotStartedIn(agentStatuses, call.agentId) THEN "active"
                                         ELSE agentStatuses[call.agentId]
    /\ \A s \in Stages : agentStatuses'[s] = "completed" => agentStatuses[s] = "completed"

\* C16 as stated: an event without a completion reason makes its stage
\* active if it was not started, completes no stage, and leaves the
\* successor of its stage as it was.
C16_Original ==
    [][FieldStep /\ NonCompletion(trace'[1].event) =>
          LET call == trace'[1]
          IN /\ FirstSighting(call)
             /\ (call.agentId \in Stages /\ call.agentId # "verifier") =>
                    agentStatuses'[Successor(call.agentId)] = agentStatuses[Successor(call.agentId)]]_vars

\* C16 as amended: as stated, and every stage other than the event's own is
\* as it was, except that builder, the successor of modeler included, goes
\* from not started to active when the event has a side channel.
C16_NonCompletion ==
    [][FieldStep /\ NonCompletion(trace'[1].event) =>
          LET call == trace'[1]
          IN /\ FirstSighting(call)
             /\ \A s \in Stages \ {call.agentId} :
                    agentStatuses'[s] =
                        IF s = "builder" /\ HasSideChannel(call.event) /\ NotStartedIn(agentStatuses, s)
                        THEN "active"
                        ELSE agentStatuses[s]]_vars

\* An event of parser with the reason stop, in lower case, made parser
\* active and left modeler waiting.
C16_Witness ==
    /\ chunks = 1
    /\ Len(trace) = 1
    /\ trace[1].event = AuthorEvent("architecture_parser_agent", "stop")
    /\ agentStatuses = [Waiting EXCEPT !["orchestrator"] = "active", !["parser"] = "active"]

\* Only the first call of startAnalysis was made.
OneRun == \A q \in Runs \ {1} : runs[q].pc = "none"

\* Call r takes the end-of-stream step.
EndOfStream(r) == runs[r].pc = "reading" /\ runs'[r].pc = "done"

\* C17: the display comes to show a rendered report only in an
\* end-of-stream step, which shows the report buffer rendered, or the
\* placeholder when the buffer is blank; the step that opens a stream shows
\* the placeholder; and while the one run of a page is in flight the
\* display holds a placeholder.
C17_RenderedAtEnd ==
    [][/\ (reportContent'.kind = "report" /\ reportContent' # reportContent) =>
              \E r \in Runs : EndOfStream(r)
       /\ \A r \in Runs :
              /\ EndOfStream(r) =>
                    reportContent' = IF Trim(fullReport) = "" THEN Display("processing", "")
                                     ELSE Display("report", RenderMarkdown(fullReport))
              /\ (runs[r].pc = "query" /\ runs'[r].pc = "reading") => reportContent' = Display("processing", "")
       /\ (OneRun' /\ InFlight(1)') => reportContent'.kind \in {"starting", "processing", "reset"}]_vars

\* The one run received text and ended: the display shows the buffer
\* rendered.
C17_Witness ==
    /\ OneRun
    /\ runs[1].pc = "done"
    /\ fullReport = "x"
    /\ reportContent = Display("report", "<p>x</p>")

\* Call r ends in the catch block of startAnalysis or of streamQuery.
EndsWithoutStreamEnd(r) ==
    runs[r].pc # runs'[r].pc /\ runs'[r].pc \in {"failed", "cancelled", "stream_cancelled"}

\* C19: the end-of-stream step leaves the start, reset and download
\* controls enabled; the download control becomes enabled in no other step;
\* the start of a run and a reset disable it, the end of a call by an
\* error or a cancellation leaves it as it was, and after the one run of a
\* page has ended so it is disabled.
C19_DownloadEnabledAtEnd ==
    [][/\ \A r \in Runs :
              /\ EndOfStream(r) => (~analyzeBtn' /\ ~resetBtn' /\ ~downloadBtn')
              /\ (runs[r].pc = "none" /\ runs'[r].pc = "session") => downloadBtn'
              /\ EndsWithoutStreamEnd(r) => downloadBtn' = downloadBtn
       /\ (downloadBtn /\ ~downloadBtn') => \E r \in Runs : EndOfStream(r)
       /\ (reportContent' = Display("reset", "") /\ reportContent' # reportContent) => downloadBtn'
       /\ (OneRun' /\ runs'[1].pc \in {"failed", "cancelled", "stream_cancelled"}) => downloadBtn']_vars

\* The stream of a run ended and the three controls are enabled.
C19_Witness ==
    /\ \E r \in Runs : runs[r].pc = "done"
    /\ ~analyzeBtn /\ ~resetBtn /\ ~downloadBtn
    /\ reportContent.kind = "report"

\* The number of requests op that call r has issued.
Requests(op, r) ==
    Cardinality({i \in DOMAIN log.entries : log.entries[i].op = op /\ log.entries[i].run = r})

\* The session response is non-2xx or carries neither identifier field.
NoSession(response) == ~response.ok \/ (response.id = "" /\ response.session_id = "")

\* createSession of call r was answered by a response that gives no session.
SessionFailed(r) ==
    \E i \in DOMAIN log.entries :
        /\ log.entries[i].op = "session_answer"
        /\ log.entries[i].run = r
        /\ NoSession(log.entries[i].response)

\* C18: once the session request of a call is answered by a response that
\* is not ok or has neither id nor session_id, the call has ended in the
\* catch block, it has issued one session request and no query request, and
\* the step that took the answer shows the error and enables the start
\* control.
C18_SessionFailure ==
    [][\A r \in Runs :
          /\ SessionFailed(r)' =>
                (runs[r].pc = "failed" /\ Requests("session", r) = 1 /\ Requests("query", r) = 0)'
          /\ (~SessionFailed(r) /\ SessionFailed(r)') =>
                /\ runs[r].pc = "session"
                /\ reportContent' \in {Display("error", "Failed to create session"),
                                       Display("error", "Session ID not found in response")}
                /\ ~analyzeBtn']_vars

\* The server answered ok with neither identifier: the run has failed and
\* the start control is enabled.
C18_Witness ==
    /\ Len(log.entries) = 2
    /\ log.entries[2] = SessionAnswer(1, [ok |-> TRUE, id |-> "", session_id |-> ""])
    /\ runs[1].pc = "failed"
    /\ reportContent = Display("error", "Session ID not found in response")
    /\ ~analyzeBtn

\* The entries a step adds to the history.
NewEntries == SubSeq(log'.entries, Len(log.entries) + 1, Len(log'.entries))

\* The entry says that the lookup failed: the fetch was rejected, or the
\* answer is not 2xx (404 among them), or its body is not JSON.
LookupFailed(e) ==
    \/ e.op = "lookup_rejected"
    \/ e.op = "lookup_answer" /\ ~(e.answer.status \in 200..299 /\ e.answer.json)

\* C20 as stated: when the lookup fails, with 404 or otherwise,
\* downloadReport ends normally and downloads the report buffer as
\* markdown, unless the buffer is empty, when it downloads nothing and
\* alerts.
C20_Original ==
    [][(NewEntries # <<>> /\ LookupFailed(NewEntries[1])) =>
          /\ download' = "idle"
          /\ reportContent' = reportContent
          /\ Tail(NewEntries) = IF fullReport = "" THEN <<Alert("No report to download")>>
                                ELSE <<MarkdownDownload(fullReport)>>]_vars

\* C20: when the lookup fails, with 404 or otherwise, downloadReport ends
\* normally and downloads the report buffer, as it is when the lookup is
\* answered, as markdown, unless the buffer is empty or holds only white
\* space, when it downloads nothing and alerts.
C20_Fallback ==
    [][(NewEntries # <<>> /\ LookupFailed(NewEntries[1])) =>
          /\ download' = "idle"
          /\ reportContent' = reportContent
          /\ Tail(NewEntries) = IF Trim(fullReport) = "" THEN <<Alert("No report to download")>>
                                ELSE <<MarkdownDownload(fullReport)>>]_vars

\* The lookup answered 404 while the buffer held report text, and the
\* buffer was downloaded as markdown.
C20_Witness ==
    \E i \in DOMAIN log.entries :
        /\ log.entries[i].op = "lookup_answer"
        /\ log.entries[i].answer.status = 404
        /\ i < Len(log.entries)
        /\ log.entries[i + 1] = MarkdownDownload("x")

\* C21: the stored attachment, the file a run converts and the file behind
\* every inline-data part of a run is of an image type and of at most
\* 10 MB; the part carries the type of that file.
C21_OnlyValidatedFiles ==
    /\ uploadedFile # NoFile =>
          (SubSeq(uploadedFile.type, 1, 6) = "image/" /\ uploadedFile.size <= 10 * 1024 * 1024)
    /\ \A r \in Runs :
          /\ runs[r].file # NoFile =>
                (SubSeq(runs[r].file.type, 1, 6) = "image/" /\ runs[r].file.size <= 10 * 1024 * 1024)
          /\ \A i \in DOMAIN runs[r].parts :
                runs[r].parts[i].kind = "inlineData" =>
                   (runs[r].file # NoFile /\ runs[r].parts[i].mimeType = runs[r].file.type)

\* A run has issued its query with an inline-data part made from the
\* stored attachment, an image of exactly 10 MB.
C21_Witness ==
    \E r \in Runs :
        /\ runs[r].pc = "query"
        /\ runs[r].file = [type |-> "image/png", size |-> MaxFileSize]
        /\ \E i \in DOMAIN runs[r].parts : runs[r].parts[i] = [kind |-> "inlineData", mimeType |-> "image/png"]
        /\ uploadedFile = runs[r].file

\* The number of places of s where p occurs.
Occurrences(s, p) == Cardinality({i \in 1..Len(s) : i + Len(p) - 1 <= Len(s) /\ SubSeq(s, i, i + Len(p) - 1) = p})

\* C22: once the stream that delivered "# Title", a blank line and
\* "**bold**" has ended, the display holds the header Title outside any
\* paragraph, followed by the paragraph with bold "bold", and the markup
\* opens and closes one paragraph and no more.
C22_HeaderThenParagraph ==
    (runs[1].pc = "done" /\ fullReport = "# Title\n\n**bold**") =>
        /\ reportContent.kind = "report"
        /\ StartsWith(reportContent.text, "<h1>Title</h1>")
        /\ EndsWith(reportContent.text, "<p><strong>bold</strong></p>")
        /\ Occurrences(reportContent.text, "<p>") = 1
        /\ Occurrences(reportContent.text, "</p>") = 1

\* C23: with the handlers run only while their control is enabled, the
\* start, reset and download controls are disabled whenever a call of
\* startAnalysis is in flight; at most one call is in flight, and the
\* signal of its requests is not aborted.
C23_ControlsDisabledInFlight ==
    /\ \A r \in Runs : InFlight(r) => (analyzeBtn /\ resetBtn /\ downloadBtn /\ ~Aborted(r))
    /\ Cardinality({r \in Runs : InFlight(r)}) <= 1

\* A second run reads its stream, begun after the first ended by an error;
\* the three controls are disabled.
C23_Witness ==
    /\ runs[1].pc = "failed"
    /\ runs[2].pc = "reading"
    /\ analyzeBtn /\ resetBtn /\ downloadBtn

\* C24: when processStreamEvent raises on an event, in the scan of the
\* artifactDelta (a null .pdf entry) or in the second pass over the tool
\* calls (a string response that is no JSON), the run goes on reading and
\* the display and the controls are untouched; the statuses are those the
\* status steps gave; a raise in the scan keeps the pointer of the entries
\* before the null one and skips the text and the tool calls; a raise in
\* the second pass comes after the text was appended and keeps the pointer
\* of the calls before the failing one.
C24_SwallowedException ==
    [][LET event == trace'[1].event
           delta == event.artifactDelta
           calls == event.toolCalls
           bad == {i \in 1..Len(calls) : calls[i].name = "convert_markdown_to_pdf" /\ calls[i].kind = "text"}
           hits == {i \in ConvertHits(calls) : \A j \in bad : i < j}
           entry == delta[Last(EffectiveEntries(delta))]
           scanned == IF EffectiveEntries(delta) = {} THEN pdfFilePath
                      ELSE IF entry.filePath # "" THEN entry.filePath ELSE entry.filename
       IN (FieldStep /\ (ScanRaises(delta) \/ bad # {})) =>
             /\ runs' = runs /\ runs[1].pc = "reading"
             /\ reportContent' = reportContent
             /\ UNCHANGED <<analyzeBtn, resetBtn, downloadBtn, abortController, aborted>>
             /\ agentStatuses' = StatusSteps(agentStatuses, event)
             /\ IF ScanRaises(delta)
                THEN fullReport' = fullReport /\ pdfFilePath' = scanned
                ELSE /\ fullReport' = fullReport \o ContentText(event.content)
                     /\ pdfFilePath' = IF hits = {} THEN scanned ELSE calls[Last(hits)].file_path]_vars

\* The first event of the stream completed parser and raised on its null
\* .pdf entry: parser is completed, its text is not in the buffer, the run
\* reads on.
C24_Witness ==
    /\ chunks = 1
    /\ Len(trace) = 1
    /\ trace[1].event = Event("architecture_parser_agent", "STOP", StringContent("x"), <<>>, NullPdfDelta)
    /\ agentStatuses["parser"] = "completed"
    /\ fullReport = ""
    /\ runs[1].pc = "reading"
    /\ reportContent = Display("processing", "")

\* C25: once the stream has ended, the events that were processed are
\* those of the well-formed frames that a line break ends, and the stages,
\* the report buffer and the artifact pointer are what those events give,
\* followed by the finalization: the text after the last line break gave
\* no event.
C25_ResidualDropped ==
    runs[1].pc = "done" =>
        LET frames == FramesUpTo(SentText, Len(SentText))
            opened == [agentStatuses |-> [Waiting EXCEPT !["orchestrator"] = "active"],
                       fullReport |-> "", pdfFilePath |-> Null]
            given == ProcessAll(opened, frames, 1)
        IN /\ wire = <<>>
           /\ trace = frames
           /\ agentStatuses = Finalize(given.agentStatuses)
           /\ fullReport = given.fullReport
           /\ pdfFilePath = given.pdfFilePath

\* The stream sent the frame of modeler with its line break and the frame
\* of parser without one, and ended: parser was never started.
C25_Witness ==
    /\ runs[1].pc = "done"
    /\ sent = Bytes(" data: {m} \r\n") \o Bytes("data: {p}")
    /\ trace = <<"m">>
    /\ agentStatuses["parser"] = "waiting"
    /\ agentStatuses["modeler"] = "completed"

\* C26: the step that accepts the query response sets orchestrator active
\* and changes no other stage, nor the report buffer, nor the artifact
\* pointer; the end-of-stream step of every call leaves orchestrator
\* completed.
C26_OrchestratorCompleted ==
    [][\A r \in Runs :
          /\ (runs[r].pc = "query" /\ runs'[r].pc = "reading") =>
                /\ agentStatuses'["orchestrator"] = "active"
                /\ \A s \in Stages \ {"orchestrator"} : agentStatuses'[s] = agentStatuses[s]
                /\ fullReport' = fullReport /\ pdfFilePath' = pdfFilePath
          /\ EndOfStream(r) => agentStatuses'["orchestrator"] = "completed"]_vars

\* The stream of the one run ended without an event: orchestrator is
\* completed and no other stage was started.
C26_Witness ==
    /\ OneRun
    /\ runs[1].pc = "done"
    /\ agentStatuses = [Waiting EXCEPT !["orchestrator"] = "completed"]
    /\ fullReport = ""

====
